---------------------------- MODULE Spec2Model ----------------------------
(***************************************************************************)
(* A model of m61gc.c: a conservative mark-and-sweep collector on top of   *)
(* malloc/free.  The registry `allocs` is a sorted array of allocations;   *)
(* m61_malloc, m61_free and m61_gc are the operations.                     *)
(*                                                                         *)
(* Scale.  The raw heap is the addresses 1..HeapSize (0 is NULL).  A       *)
(* pointer is PtrWidth bytes, little-endian, a byte is 0..ByteBase-1.      *)
(* size_t arithmetic is modulo SizeMod.  The root regions (stack, data     *)
(* segment) lie above the heap in the same address space.                  *)
(***************************************************************************)
EXTENDS Integers, Sequences, FiniteSets, TLC

\* ---- bounds of the model
HeapSize == 5        \* bytes of raw heap, addresses 1..HeapSize
MaxSize == 2         \* largest size passed to m61_malloc
PtrWidth == 2        \* sizeof(void*) of the modelled build
StackLen == 3        \* m61_stack_bottom - stack_top
DataLen == 2         \* _end - data_start
MaxCalls == 3        \* m61_malloc calls made in one behaviour
MaxRootPtrs == 1     \* non-zero bytes the root regions hold at a collection

\* ---- program constants
ByteBase == 256      \* values of one char
GcPeriod == 65536    \* 1U << 16
InitialCapacity == 1024

NULL == 0
Nil == -1            \* "no allocation" (the NULL allocation*)
SizeMod == 2^30      \* size_t wraps modulo SizeMod
StartCount == GcPeriod - 2

Addrs == 1..HeapSize
Sizes == 0..MaxSize
StackTop == HeapSize + 2            \* (char*) &stack_top
StackBottom == StackTop + StackLen  \* m61_stack_bottom
DataStart == StackBottom + 1        \* data_start
DataEnd == DataStart + DataLen      \* _end

VARIABLES
    allocs,            \* active allocations, sorted by ptr: <<[ptr, sz, marked]>>
    allocs_capacity,   \* capacity of the allocs array
    allocation_count,  \* static allocation_count of m61_malloc
    live,              \* raw allocator: blocks handed out by malloc, not yet freed
    mem,               \* contents of the heap bytes
    fatal,             \* "none", or the assertion that terminated the process
    last               \* the most recent call: its arguments, result and effects

vars == <<allocs, allocs_capacity, allocation_count, live, mem, fatal, last>>

\* ---------------------------------------------------------------- raw allocator

\* the bytes a raw block occupies: malloc(0) returns a unique pointer
Footprint(b) == b.ptr .. (b.ptr + (IF b.sz = 0 THEN 1 ELSE b.sz) - 1)

\* the starts of the ranges of sz bytes free in the raw heap
raw_fits(lv, sz) ==
    {p \in Addrs :
       /\ Footprint([ptr |-> p, sz |-> sz]) \subseteq Addrs
       /\ \A b \in lv : Footprint(b) \cap Footprint([ptr |-> p, sz |-> sz]) = {}}

\* malloc(sz): the lowest or the highest free range, as the allocator picks;
\* NULL when the heap has none
raw_malloc(lv, sz, pick) ==
    LET F == raw_fits(lv, sz) IN
    IF F = {} THEN NULL
    ELSE IF pick = "low" THEN CHOOSE p \in F : \A q \in F : p <= q
    ELSE CHOOSE p \in F : \A q \in F : p >= q

\* the picks that make a difference
Picks(lv, sz) ==
    IF raw_malloc(lv, sz, "low") = raw_malloc(lv, sz, "high") THEN {"low"} ELSE {"low", "high"}

\* the raw allocator's state after malloc(sz) returned p
raw_take(lv, p, sz) == IF p = NULL THEN lv ELSE lv \cup {[ptr |-> p, sz |-> sz]}

\* free(ptr)
raw_free(lv, ptr) == {b \in lv : b.ptr # ptr}

\* The contents of a block passed to free() are indeterminate; the program
\* never reads them before m61_malloc clears the block again.  They are
\* modelled as the byte Junk.
Junk == ByteBase - 1
raw_free_mem(m, lv, ptr) ==
    [x \in DOMAIN m |-> IF \E b \in lv : b.ptr = ptr /\ x \in Footprint(b) THEN Junk ELSE m[x]]

\* ---------------------------------------------------------------- memory

RECURSIVE Pow(_, _)
Pow(b, k) == IF k = 0 THEN 1 ELSE b * Pow(b, k - 1)

\* The address space m61_gc reads is M = [mem, stack, data]: the heap bytes
\* and the bytes of the stack region and of the data region.
Memory(m, stack, data) == [mem |-> m, stack |-> stack, data |-> data]

\* the byte at address x
ReadByte(M, x) ==
    IF x \in Addrs THEN M.mem[x]
    ELSE IF x >= StackTop /\ x < StackBottom THEN M.stack[x - StackTop + 1]
    ELSE IF x >= DataStart /\ x < DataEnd THEN M.data[x - DataStart + 1]
    ELSE 0

RECURSIVE DecodeFrom(_, _, _)
DecodeFrom(M, a, k) ==
    IF k = PtrWidth THEN 0 ELSE ReadByte(M, a + k) + ByteBase * DecodeFrom(M, a, k + 1)

\* memcpy(&ptr, base + i, sizeof(ptr)): the pointer stored at address a,
\* least significant byte first
Decode(M, a) == DecodeFrom(M, a, 0)

\* byte k of the pointer value v
EncodeByte(v, k) == (v \div Pow(ByteBase, k)) % ByteBase

\* memory after a pointer value v was stored at address a
store_ptr(m, a, v) ==
    [x \in DOMAIN m |-> IF x >= a /\ x < a + PtrWidth THEN EncodeByte(v, x - a) ELSE m[x]]

\* (mutant) memset that stops one byte short
memset_short(m, ptr, sz) ==
    [x \in DOMAIN m |-> IF x >= ptr /\ x < ptr + sz - 1 THEN 0 ELSE m[x]]

\* memset(ptr, 0, sz)
memset_zero(m, ptr, sz) ==
    [x \in DOMAIN m |-> IF x >= ptr /\ x < ptr + sz THEN 0 ELSE m[x]]

\* ---------------------------------------------------------------- registry
\* (An operator's intermediate values are passed on as parameters, which
\* TLC evaluates once, rather than bound by LET.)

\* one step of the binary search with its midpoint m
RECURSIVE fai_loop(_, _, _, _)
\* (mutant) the step taking the address one past the end as contained
fai_step_inclusive(A, ptr, l, r, m) ==
    IF ptr < A[m + 1].ptr THEN fai_loop(A, ptr, l, m)
    ELSE IF ptr > A[m + 1].ptr + A[m + 1].sz THEN fai_loop(A, ptr, m + 1, r)
    ELSE m

fai_step(A, ptr, l, r, m) ==
    IF ptr < A[m + 1].ptr THEN fai_loop(A, ptr, l, m)
    ELSE IF ptr >= A[m + 1].ptr + A[m + 1].sz THEN fai_loop(A, ptr, m + 1, r)
    ELSE m

\* while (l < r) ...; return l
fai_loop(A, ptr, l, r) ==
    IF l < r THEN fai_step(A, ptr, l, r, l + (r - l) \div 2) ELSE l

\* the index (from 0) in A where ptr belongs
find_allocation_index(A, ptr) == fai_loop(A, ptr, 0, Len(A))

\* (mutant) find_allocation asserting that the search found a slot in the array
find_allocation_at_strict(A, ptr, i) ==
    [ok |-> (i < Len(A) /\ ptr < A[i + 1].ptr + A[i + 1].sz),
     a |-> IF i < Len(A) /\ ptr >= A[i + 1].ptr THEN i ELSE Nil]

\* find_allocation after i = find_allocation_index(ptr): .ok is its assertion,
\* .a the index of the active allocation containing ptr, or Nil
find_allocation_at(A, ptr, i) ==
    [ok |-> (i = Len(A) \/ ptr < A[i + 1].ptr + A[i + 1].sz),
     a |-> IF i < Len(A) /\ ptr >= A[i + 1].ptr THEN i ELSE Nil]

find_allocation(A, ptr) == find_allocation_at(A, ptr, find_allocation_index(A, ptr))

\* memmove(&allocs[i], &allocs[i + 1], ...); --nallocs
remove_at(A, i) == [k \in 1..(Len(A) - 1) |-> IF k <= i THEN A[k] ELSE A[k + 1]]

\* (mutant) the new record stored one slot too far
insert_at_next(A, i, rec) ==
    [k \in 1..(Len(A) + 1) |->
        IF k <= i + 1 /\ k <= Len(A) THEN A[k]
        ELSE IF k = i + 2 \/ (k = i + 1 /\ i = Len(A)) THEN rec
        ELSE A[k - 1]]

\* (mutant) the insertion without the memmove that makes room
insert_at_no_shift(A, i, rec) ==
    [k \in 1..(Len(A) + 1) |->
        IF k = i + 1 THEN rec ELSE IF k <= Len(A) THEN A[k] ELSE A[Len(A)]]

\* memmove(&allocs[i + 1], &allocs[i], ...); allocs[i] = ...; ++nallocs
insert_at(A, i, rec) ==
    [k \in 1..(Len(A) + 1) |-> IF k <= i THEN A[k] ELSE IF k = i + 1 THEN rec ELSE A[k - 1]]

\* ---------------------------------------------------------------- m61_free

\* The operations below work on a record of the program's state:
\*   allocs, capacity, count, live, mem, fatal   the variables
\*   nmarks     static nmarks, which the program writes and never reads
\*   released   the pointers passed to free() during the call
\*   gcs, raws  the m61_gc runs and the malloc requests of the call
\*   r1, r2     what the first malloc and the retry returned (Nil: not called)
\*   ptr        the local ptr of m61_malloc
Running(st) == st.fatal = "none"

\* (mutant) m61_free without the exact-match half of its assertion
m61_free_loose(st, ptr, i) ==
    IF ~(i < Len(st.allocs))
    THEN [st EXCEPT !.fatal = "free"]
    ELSE [st EXCEPT !.allocs = remove_at(st.allocs, i),
                    !.live = raw_free(st.live, ptr),
                    !.mem = raw_free_mem(st.mem, st.live, ptr),
                    !.released = @ \cup {ptr}]

\* m61_free after i = find_allocation_index(ptr)
m61_free_at(st, ptr, i) ==
    IF ~(i < Len(st.allocs) /\ st.allocs[i + 1].ptr = ptr)
    THEN [st EXCEPT !.fatal = "free"]
    ELSE [st EXCEPT !.allocs = remove_at(st.allocs, i),
                    !.live = raw_free(st.live, ptr),
                    !.mem = raw_free_mem(st.mem, st.live, ptr),
                    !.released = @ \cup {ptr}]

m61_free(st, ptr) ==
    IF ptr = NULL THEN st
    ELSE m61_free_at(st, ptr, find_allocation_index(st.allocs, ptr))

\* ---------------------------------------------------------------- m61_gc

RECURSIVE mark_allocations(_, _, _, _)
RECURSIVE mark_loop(_, _, _, _, _)

\* the body of the for loop at offset i, with ptr read and f = find_allocation(ptr)
mark_step(st, M, base, sz, i, f) ==
    IF ~f.ok
    THEN [st EXCEPT !.fatal = "find"]
    ELSE IF f.a # Nil /\ st.allocs[f.a + 1].marked = 0
    THEN mark_loop(mark_allocations([st EXCEPT !.allocs[f.a + 1].marked = 1], M,
                                    st.allocs[f.a + 1].ptr, st.allocs[f.a + 1].sz),
                   M, base, sz, i + 1)
    ELSE mark_loop(st, M, base, sz, i + 1)

\* (mutant) the loop that stops one offset early
mark_loop_short(st, M, base, sz, i) ==
    IF ~Running(st) \/ ~(i < (sz - PtrWidth) % SizeMod) THEN st
    ELSE mark_step(st, M, base, sz, i, find_allocation(st.allocs, Decode(M, base + i)))

\* for (size_t i = 0; i <= sz - sizeof(void*); ++i), from offset i on; the
\* bound is computed in size_t
mark_loop(st, M, base, sz, i) ==
    IF ~Running(st) \/ ~(i <= (sz - PtrWidth) % SizeMod) THEN st
    ELSE mark_step(st, M, base, sz, i, find_allocation(st.allocs, Decode(M, base + i)))

\* (mutant) marking that scans the root regions only, not the marked allocations
mark_allocations_roots_only(st, M, base, sz) ==
    IF sz < PtrWidth \/ base < StackTop THEN st
    ELSE mark_loop([st EXCEPT !.nmarks = @ + 1], M, base, sz, 0)

mark_allocations(st, M, base, sz) ==
    IF sz < PtrWidth THEN st
    ELSE mark_loop([st EXCEPT !.nmarks = @ + 1], M, base, sz, 0)

\* unmark all active allocations
unmark_all(A) == [k \in 1..Len(A) |-> [A[k] EXCEPT !.marked = 0]]

RECURSIVE sweep_loop(_, _)
\* free unmarked allocations: the for loop from index i on
sweep_loop(st, i) ==
    IF ~Running(st) \/ ~(i < Len(st.allocs)) THEN st
    ELSE IF st.allocs[i + 1].marked = 0
    THEN sweep_loop(m61_free(st, st.allocs[i + 1].ptr), (((i - 1) % SizeMod) + 1) % SizeMod)
    ELSE sweep_loop(st, (i + 1) % SizeMod)

\* (mutant) m61_gc without the loop that unmarks the active allocations
gc_begin_keep_flags(st) == [st EXCEPT !.nmarks = 0, !.gcs = @ + 1]

\* nmarks = 0; unmark all active allocations
gc_begin(st) == [st EXCEPT !.nmarks = 0, !.allocs = unmark_all(@), !.gcs = @ + 1]

\* mark allocations in the stack
gc_mark_stack(st, M) == mark_allocations(st, M, StackTop, StackBottom - StackTop)

\* mark allocations in globals
gc_mark_data(st, M) ==
    IF Running(st) THEN mark_allocations(st, M, DataStart, DataEnd - DataStart) ELSE st

\* m61_gc with the root regions holding the bytes stack and data
m61_gc(st, stack, data) ==
    sweep_loop(gc_mark_data(gc_mark_stack(gc_begin(st), Memory(st.mem, stack, data)),
                            Memory(st.mem, stack, data)), 0)

\* ---------------------------------------------------------------- m61_malloc

\* (mutant) collect only when malloc fails
gc_trigger_fail_only(ptr, count) == ptr = NULL

\* (mutant) collect only on the counter
gc_trigger_count_only(ptr, count) == count % GcPeriod = 0

\* "Garbage collect every 2**16 allocations, or sooner if malloc fails"
gc_trigger(ptr, count) == ptr = NULL \/ count % GcPeriod = 0

\* ++allocation_count; void* ptr = malloc(sz), which returned p
malloc_first(st, sz, p) ==
    [st EXCEPT !.count = (@ + 1) % SizeMod, !.live = raw_take(@, p, sz),
               !.raws = @ + 1, !.r1 = p, !.ptr = p]

\* ptr = malloc(sz) after m61_gc(), which returned p
malloc_retry(st, sz, p) ==
    [st EXCEPT !.live = raw_take(@, p, sz), !.raws = @ + 1, !.r2 = p, !.ptr = p]

\* if (!ptr || allocation_count % (1U << 16) == 0) { m61_gc(); ...
malloc_collect(st, stack, data) ==
    IF gc_trigger(st.ptr, st.count) THEN m61_gc(st, stack, data) ELSE st

\* ... ptr = malloc(sz); }
malloc_again(st, sz, pick) ==
    IF st.gcs > 0 /\ Running(st) THEN malloc_retry(st, sz, raw_malloc(st.live, sz, pick)) ELSE st

\* the allocs array after "make space for the new allocation"; realloc may fail
grow_allocs(st, reallocOK) ==
    IF Len(st.allocs) = st.capacity
    THEN IF reallocOK
         THEN [st EXCEPT !.capacity = IF @ = 0 THEN InitialCapacity ELSE 2 * @]
         ELSE [st EXCEPT !.fatal = "realloc"]
    ELSE st

\* store the new allocation in slot i of the grown array g; clear it.
\* `marked` of the new record is not assigned: m is what the slot holds
malloc_store(g, sz, i, m) ==
    IF ~Running(g) THEN g
    ELSE [g EXCEPT !.allocs = insert_at(@, i, [ptr |-> g.ptr, sz |-> sz, marked |-> m]),
                   !.mem = memset_zero(@, g.ptr, sz)]

\* (mutant) the overlap assertion comparing the start of the new block only
malloc_insert_at_start_only(st, sz, i, mk, reallocOK) ==
    IF ~(i = Len(st.allocs) \/ st.ptr <= st.allocs[i + 1].ptr)
    THEN [st EXCEPT !.fatal = "overlap"]
    ELSE malloc_store(grow_allocs(st, reallocOK), sz, i,
                      IF i < Len(st.allocs) THEN st.allocs[i + 1].marked ELSE mk)

\* m61_malloc from "find index to insert this allocation" on, with
\* i = find_allocation_index(ptr).  Slot i keeps the `marked` of the record
\* moved out of it; a slot at the end holds whatever the array held there, mk.
malloc_insert_at(st, sz, i, mk, reallocOK) ==
    IF ~(i = Len(st.allocs) \/ st.ptr + sz <= st.allocs[i + 1].ptr)
    THEN [st EXCEPT !.fatal = "overlap"]
    ELSE malloc_store(grow_allocs(st, reallocOK), sz, i,
                      IF i < Len(st.allocs) THEN st.allocs[i + 1].marked ELSE mk)

\* if (!ptr) return NULL; ...
malloc_insert(st, sz, mk, reallocOK) ==
    IF ~Running(st) \/ st.ptr = NULL THEN st
    ELSE malloc_insert_at(st, sz, find_allocation_index(st.allocs, st.ptr), mk, reallocOK)

\* m61_malloc(sz).  in.pick1 and in.pick2 are the raw allocator's picks for the
\* two malloc calls, in.stack and in.data the root bytes a collection finds,
\* in.mk the stale `marked` of a slot at the end, in.ok whether realloc succeeds.
m61_malloc(st, sz, in) ==
    malloc_insert(
        malloc_again(
            malloc_collect(malloc_first(st, sz, raw_malloc(st.live, sz, in.pick1)),
                           in.stack, in.data),
            sz, in.pick2),
        sz, in.mk, in.ok)

\* ---------------------------------------------------------------- the program

\* the bytes a root region of length n can hold: pointer values stored at
\* any offset of a region that was zero
RootVals == 0..HeapSize
RegionContents(n) ==
    {s \in [1..n -> RootVals] : \A k \in 1..n : k > n - PtrWidth + 1 => s[k] = 0}
NonZero(s) == Cardinality({k \in DOMAIN s : s[k] # 0})
StackContents == {s \in RegionContents(StackLen) : NonZero(s) <= MaxRootPtrs}
DataContentsWith(stack) ==
    {d \in RegionContents(DataLen) : NonZero(stack) + NonZero(d) <= MaxRootPtrs}
ZeroStack == [k \in 1..StackLen |-> 0]
ZeroData == [k \in 1..DataLen |-> 0]

\* What `last` keeps of the state a collection started from: the number of
\* records whose flag was set, whether the bytes of a record held the address
\* of another record, and whether the call before it was a collection too.
Flagged(A) == Cardinality({k \in 1..Len(A) : A[k].marked = 1})
Linked(A, m) ==
    \E j \in 1..Len(A) : \E k \in 1..Len(A) :
       /\ j # k /\ A[j].sz >= PtrWidth
       /\ A[k].ptr = Decode(Memory(m, ZeroStack, ZeroData), A[j].ptr)

Cur ==
    [allocs |-> allocs, capacity |-> allocs_capacity, count |-> allocation_count,
     nmarks |-> 0, live |-> live, mem |-> mem, fatal |-> fatal,
     released |-> {}, gcs |-> 0, raws |-> 0, r1 |-> Nil, r2 |-> Nil, ptr |-> NULL]

Commit(st) ==
    /\ allocs' = st.allocs
    /\ allocs_capacity' = st.capacity
    /\ allocation_count' = st.count
    /\ live' = st.live
    /\ mem' = st.mem
    /\ fatal' = st.fatal

NoCall ==
    [op |-> "none", arg |-> 0, ret |-> NULL, r1 |-> Nil, r2 |-> Nil, gcs |-> 0, raws |-> 0,
     nmarks |-> 0,
     released |-> {}, stack |-> ZeroStack, data |-> ZeroData, stale |-> FALSE,
     flagged |-> 0, linked |-> FALSE, again |-> FALSE]

\* m61_malloc calls made so far in this behaviour
CallsMade == allocation_count - StartCount

\* some byte of [p, p+sz) is not zero
Dirty(m, p, sz) == \E x \in Addrs : x >= p /\ x < p + sz /\ m[x] # 0

\* A program whose first StartCount calls of m61_malloc all reported NULL (the
\* raw allocator refused a size beyond the heap twice each time) is in this
\* state: the registry as constructed, the counter at StartCount.  The
\* behaviours start there, so that the counter crosses GcPeriod within MaxCalls.
Init ==
    /\ allocs = << >>
    /\ allocs_capacity = 0
    /\ allocation_count = StartCount
    /\ live = {}
    /\ mem = [x \in Addrs |-> 0]
    /\ fatal = "none"
    /\ last = NoCall

Allocate(sz) ==
    /\ fatal = "none"
    /\ CallsMade < MaxCalls
    /\ \E pick1 \in Picks(live, sz) :
         \E trig \in {gc_trigger(raw_malloc(live, sz, pick1), (allocation_count + 1) % SizeMod)} :
             \E stack \in (IF trig THEN StackContents ELSE {ZeroStack}) :
             \E data \in (IF trig THEN DataContentsWith(stack) ELSE {ZeroData}) :
             \E pick2 \in (IF trig THEN {"low", "high"} ELSE {"low"}) :
             \E mk \in {0, 1} :
             \E ok \in (IF Len(allocs) = allocs_capacity THEN BOOLEAN ELSE {TRUE}) :
               \E st \in {m61_malloc(Cur, sz, [pick1 |-> pick1, pick2 |-> pick2, stack |-> stack,
                                                data |-> data, mk |-> mk, ok |-> ok])} :
               \E ret \in {IF Running(st) THEN st.ptr ELSE NULL} :
                   /\ Commit(st)
                   /\ last' = [NoCall EXCEPT !.op = "malloc", !.arg = sz, !.ret = ret,
                                             !.r1 = st.r1, !.r2 = st.r2,
                                             !.gcs = st.gcs, !.raws = st.raws,
                                             !.released = st.released,
                                             !.stale = ret # NULL /\ Dirty(mem, ret, sz)]

Deallocate(ptr) ==
    /\ fatal = "none"
    /\ \E st \in {m61_free(Cur, ptr)} :
           /\ Commit(st)
           /\ last' = [NoCall EXCEPT !.op = "free", !.arg = ptr, !.released = st.released]

Collect ==
    /\ fatal = "none"
    /\ \E stack \in StackContents : \E data \in DataContentsWith(stack) :
         \E st \in {m61_gc(Cur, stack, data)} :
             /\ Commit(st)
             /\ last' = [NoCall EXCEPT !.op = "gc", !.gcs = st.gcs, !.released = st.released,
                                       !.nmarks = st.nmarks,
                                       !.stack = stack, !.data = data,
                                       !.flagged = Flagged(allocs),
                                       !.linked = Linked(allocs, mem),
                                       !.again = (last.op = "gc")]

\* the mutator stores the pointer value v at address a of one of its blocks
Store(a, v) ==
    /\ fatal = "none"
    /\ \E k \in 1..Len(allocs) : allocs[k].ptr <= a /\ a + PtrWidth <= allocs[k].ptr + allocs[k].sz
    /\ mem' = store_ptr(mem, a, v)
    /\ last' = [NoCall EXCEPT !.op = "store", !.arg = a]
    /\ UNCHANGED <<allocs, allocs_capacity, allocation_count, live, fatal>>

Next ==
    \/ \E sz \in Sizes : Allocate(sz)
    \/ \E ptr \in 0..(HeapSize + 1) : Deallocate(ptr)
    \/ Collect
    \/ \E a \in Addrs, v \in RootVals : Store(a, v)

Spec == Init /\ [][Next]_vars

\* the registry as a set of blocks
Blocks(A) == {[ptr |-> A[k].ptr, sz |-> A[k].sz] : k \in 1..Len(A)}

\* ---------------------------------------------------------------- registering a block
\* m61_malloc trusts malloc: lines 55-58 assert that the block it was handed
\* overlaps no active allocation.  A correct malloc never makes the assertion
\* fail, so the assertion is exercised on its own: from every registry the
\* program can hold (sorted, the blocks disjoint) one block [p, p + sz) of the
\* heap, disjoint or not, is registered by the code from line 52 on.

MaxRecs == 3         \* records of a registry the registration starts from

SortedRegistries ==
    {A \in UNION {[1..n -> [ptr : Addrs, sz : Sizes, marked : {0}]] : n \in 0..MaxRecs} :
       /\ \A k \in 1..Len(A) : Footprint(A[k]) \subseteq Addrs
       /\ \A j \in 1..Len(A) : \A k \in 1..Len(A) :
             j < k => A[j].ptr < A[k].ptr /\ Footprint(A[j]) \cap Footprint(A[k]) = {}}

InitRegistry ==
    /\ allocs \in SortedRegistries
    /\ allocs_capacity = (IF Len(allocs) = 0 THEN 0 ELSE InitialCapacity)
    /\ allocation_count = StartCount
    /\ live = Blocks(allocs)
    /\ mem = [x \in Addrs |-> 0]
    /\ fatal = "none"
    /\ last = NoCall

\* m61_malloc(sz) from "if (!ptr)" on, malloc having returned p
Register(p, sz) ==
    /\ fatal = "none"
    /\ last.op = "none"
    /\ Footprint([ptr |-> p, sz |-> sz]) \subseteq Addrs
    /\ \E mk \in {0, 1} :
       \E ok \in (IF Len(allocs) = allocs_capacity THEN BOOLEAN ELSE {TRUE}) :
       \E st \in {malloc_insert(malloc_first(Cur, sz, p), sz, mk, ok)} :
           /\ Commit(st)
           /\ last' = [NoCall EXCEPT !.op = "register", !.arg = sz, !.ret = p, !.r1 = p,
                                     !.raws = st.raws]

NextRegister == \E p \in Addrs, sz \in Sizes : Register(p, sz)

SpecRegister == InitRegistry /\ [][NextRegister]_vars

\* ---------------------------------------------------------------- scanning a region
\* mark_allocations on its own: from every sorted registry with the flags
\* clear, as the marking of m61_gc finds it, and a heap holding at most
\* MaxRootPtrs non-zero bytes, the first n bytes of the stack region are
\* scanned, for every n from 0 to StackLen.

HeapContents == {m \in [Addrs -> RootVals] : NonZero(m) <= MaxRootPtrs}

InitScan ==
    /\ allocs \in SortedRegistries
    /\ allocs_capacity = (IF Len(allocs) = 0 THEN 0 ELSE InitialCapacity)
    /\ allocation_count = StartCount
    /\ live = Blocks(allocs)
    /\ mem \in HeapContents
    /\ fatal = "none"
    /\ last = NoCall

\* mark_allocations(stack_top, n), the stack region holding the bytes stack
Scan(n) ==
    /\ fatal = "none"
    /\ last.op = "none"
    /\ \E stack \in StackContents :
       \E st \in {mark_allocations(Cur, Memory(mem, stack, ZeroData), StackTop, n)} :
           /\ Commit(st)
           /\ last' = [NoCall EXCEPT !.op = "scan", !.arg = n, !.stack = stack,
                                     !.nmarks = st.nmarks]

NextScan == \E n \in 0..StackLen : Scan(n)

SpecScan == InitScan /\ [][NextScan]_vars

\* ---------------------------------------------------------------- reference notions

\* address a lies in [ptr, ptr + sz) of record r
Within(r, a) == r.ptr <= a /\ a < r.ptr + r.sz

\* the candidate pointers of the region [base, base + len): one per byte offset
Candidates(M, base, len) ==
    IF len < PtrWidth THEN {} ELSE {Decode(M, base + i) : i \in 0..(len - PtrWidth)}

\* the indices of the records of A that a candidate of a root region points into
Rooted(A, M) ==
    {k \in 1..Len(A) :
       \E c \in Candidates(M, StackTop, StackLen) \cup Candidates(M, DataStart, DataLen) :
          Within(A[k], c)}

\* the indices of the records that the bytes of a record of R point into
Referenced(A, M, R) ==
    {k \in 1..Len(A) : \E j \in R : \E c \in Candidates(M, A[j].ptr, A[j].sz) : Within(A[k], c)}

RECURSIVE Closure(_, _, _, _)
Closure(A, M, R, n) ==
    IF n = 0 THEN R ELSE Closure(A, M, R \cup Referenced(A, M, R), n - 1)

\* the indices of the records transitively reachable from the root regions
Reachable(A, m, stack, data) ==
    LET M == Memory(m, stack, data) IN Closure(A, M, Rooted(A, M), Len(A))

IsCollect == last.op = "gc"
IsMalloc == last.op = "malloc"
IsFree == last.op = "free"

\* ---------------------------------------------------------------- sanity

TypeOK ==
    /\ \A k \in 1..Len(allocs) :
          allocs[k].ptr \in Addrs /\ allocs[k].sz \in Sizes /\ allocs[k].marked \in {0, 1}
    /\ allocs_capacity \in {0, InitialCapacity}
    /\ allocation_count \in StartCount..(StartCount + MaxCalls)
    /\ mem \in [Addrs -> 0..(ByteBase - 1)]
    /\ fatal \in {"none", "free", "realloc", "overlap", "find"}

\* no byte of an active allocation holds what free() left behind
NoJunkRead ==
    \A k \in 1..Len(allocs) : \A x \in Addrs : Within(allocs[k], x) => mem[x] # Junk

\* ---------------------------------------------------------------- claims

\* C1: between any operations the records of the registry are sorted ascending
\* by start address and pairwise non-overlapping: an earlier record ends at or
\* before the start of every later one.
C1_SortedDisjoint ==
    \A i \in 1..Len(allocs) : \A j \in 1..Len(allocs) :
       i < j => /\ allocs[i].ptr < allocs[j].ptr
                /\ allocs[i].ptr + allocs[i].sz <= allocs[j].ptr

\* C1 witness: after a record was freed, the last m61_malloc inserted its
\* block in front of an older record.
C1_Witness ==
    /\ fatal = "none" /\ IsMalloc /\ Len(allocs) >= 2
    /\ last.ret = allocs[1].ptr
    /\ \E x \in Addrs : mem[x] = Junk

\* C2: collect() never reclaims a record transitively reachable from the root
\* regions, for chains of any length and cycles: every record reachable when
\* m61_gc starts is still in the registry afterwards, its block still held
\* from the raw allocator and not passed to free().
C2_ReachableKept ==
    [][last'.op = "gc" =>
         \A k \in Reachable(allocs, mem, last'.stack, last'.data) :
            /\ \E j \in 1..Len(allocs') :
                  allocs'[j].ptr = allocs[k].ptr /\ allocs'[j].sz = allocs[k].sz
            /\ [ptr |-> allocs[k].ptr, sz |-> allocs[k].sz] \in live'
            /\ allocs[k].ptr \notin last'.released]_vars

\* C2 witness: a collection that swept something and kept a record A that no
\* root points into, reached through the bytes of a rooted record B.
C2_Witness ==
    /\ IsCollect /\ fatal = "none" /\ last.released # {}
    /\ LET M == Memory(mem, last.stack, last.data) IN
       \E a \in 1..Len(allocs) : \E b \in Rooted(allocs, M) :
          /\ a \notin Rooted(allocs, M)
          /\ \E c \in Candidates(M, allocs[b].ptr, allocs[b].sz) : Within(allocs[a], c)

\* C3 (as claimed): collect() completes without a fatal error and afterwards no
\* record that was unreachable from the roots is in the registry, each such
\* block having been returned to the raw allocator, for records of any size.
C3_UnreachableReclaimed ==
    [][last'.op = "gc" =>
         /\ fatal' = "none"
         /\ \A k \in 1..Len(allocs) :
               k \notin Reachable(allocs, mem, last'.stack, last'.data) =>
                  /\ allocs[k].ptr \in last'.released
                  /\ \A j \in 1..Len(allocs') : allocs'[j].ptr # allocs[k].ptr]_vars

\* C4 (as claimed): between operations the blocks held from the raw allocator
\* are exactly the blocks of the registry's records, one record each.
C4_SoleOwner ==
    fatal = "none" => live = Blocks(allocs) /\ Cardinality(live) = Len(allocs)

\* C5: deallocate(p) with p not NULL and not the start of a current record is a
\* fatal error that removes no record and releases no block.
C5_InvalidReleaseRejected ==
    [][(last'.op = "free" /\ last'.arg # NULL
          /\ \A k \in 1..Len(allocs) : allocs[k].ptr # last'.arg) =>
         /\ fatal' = "free"
         /\ allocs' = allocs
         /\ live' = live
         /\ last'.released = {}]_vars

\* C5 witness: m61_free of an interior address of an active allocation aborted.
C5_Witness ==
    /\ IsFree /\ fatal = "free"
    /\ \E k \in 1..Len(allocs) : allocs[k].ptr < last.arg /\ Within(allocs[k], last.arg)

\* C6 (as claimed): deallocate of the start address of any current record, of
\* any size, succeeds, removes exactly that record, returns its block and
\* leaves the other records unchanged in their order.
C6_ReleaseOfRecordSucceeds ==
    [][(last'.op = "free" /\ \E k \in 1..Len(allocs) : allocs[k].ptr = last'.arg) =>
         /\ fatal' = "none"
         /\ allocs' = SelectSeq(allocs, LAMBDA r : r.ptr # last'.arg)
         /\ Len(allocs') = Len(allocs) - 1
         /\ live' = {b \in live : b.ptr # last'.arg}
         /\ last'.released = {last'.arg}]_vars

\* C7: the block a successful m61_malloc(sz) returns holds sz zero bytes.
C7_ZeroFilled ==
    (IsMalloc /\ fatal = "none" /\ last.ret # NULL) =>
       \A x \in Addrs : (x >= last.ret /\ x < last.ret + last.arg) => mem[x] = 0

\* C7 witness: a block returned over bytes a freed block had left behind, by a
\* call that ran a collection.
C7_Witness ==
    /\ IsMalloc /\ fatal = "none" /\ last.ret # NULL /\ last.arg >= 1
    /\ last.stale /\ last.gcs = 1

\* C8 (as claimed): the call made after exactly GcPeriod calls runs a collection.
C8_NextCallCollects ==
    (IsMalloc /\ allocation_count = GcPeriod + 1) => last.gcs >= 1

\* C8 (amended): the GcPeriod-th call, the one made after exactly GcPeriod - 1
\* calls, runs a collection, whether or not its first malloc succeeded.
C8_PeriodCallCollects ==
    (IsMalloc /\ allocation_count = GcPeriod) => last.gcs = 1

\* C8 witness: the GcPeriod-th call, its first malloc having succeeded, collected.
C8_Witness ==
    /\ IsMalloc /\ fatal = "none" /\ allocation_count = GcPeriod
    /\ last.r1 # NULL /\ last.gcs = 1 /\ last.ret # NULL

C10_NullIffBothFail ==
    [][(last'.op = "malloc" /\ fatal' = "none") =>
         /\ last'.ret = NULL <=> (last'.r1 = NULL /\ last'.r2 = NULL)
         /\ last'.ret = NULL => Blocks(allocs') \subseteq Blocks(allocs)]_vars

\* the records of A as <<ptr, sz>> pairs, in their order
Extents(A) == [k \in 1..Len(A) |-> <<A[k].ptr, A[k].sz>>]

\* C11: a successful m61_malloc(sz) returning p leaves exactly one new record
\* [p, sz] in the registry, at its sorted position; the records present before
\* the call and not swept by a collection inside it are all kept, with their
\* address and size, in the same relative order.
C11_InsertFrame ==
    [][(last'.op = "malloc" /\ fatal' = "none" /\ last'.ret # NULL) =>
         /\ Len(SelectSeq(allocs', LAMBDA r : r.ptr = last'.ret)) = 1
         /\ \E k \in 1..Len(allocs') :
               /\ allocs'[k].ptr = last'.ret /\ allocs'[k].sz = last'.arg
               /\ \A j \in 1..Len(allocs') :
                     (j < k => allocs'[j].ptr < last'.ret)
                     /\ (j > k => allocs'[j].ptr > last'.ret)
         /\ Extents(SelectSeq(allocs', LAMBDA r : r.ptr # last'.ret))
               = Extents(SelectSeq(allocs, LAMBDA r : r.ptr \notin last'.released))
         /\ last'.gcs = 0 =>
               SelectSeq(allocs', LAMBDA r : r.ptr # last'.ret) = allocs]_vars

\* C11 witness: a call whose collection swept a record, and which then inserted
\* its block in front of a record it kept.
C11_Witness ==
    /\ IsMalloc /\ fatal = "none" /\ last.ret # NULL
    /\ last.released # {} /\ Len(allocs) >= 2 /\ last.ret = allocs[1].ptr

\* the range [p, p + sz) and the record r overlap: neither ends at or before
\* the start of the other
Overlapping(r, p, sz) == ~(p + sz <= r.ptr \/ r.ptr + r.sz <= p)

\* C12: m61_malloc ends in the overlap assertion whenever the block malloc
\* handed it overlaps an active allocation, before or after its slot, and then
\* inserts no record; it never ends in that assertion when the block overlaps
\* no active allocation.
C12_OverlapRejected ==
    [][last'.op = "register" =>
         IF \E k \in 1..Len(allocs) : Overlapping(allocs[k], last'.ret, last'.arg)
         THEN fatal' = "overlap" /\ allocs' = allocs
         ELSE fatal' # "overlap"]_vars

\* C12 witness: a block starting inside the allocation before its slot, and
\* reaching no later allocation, was rejected.
C12_Witness ==
    /\ last.op = "register" /\ fatal = "overlap" /\ last.arg > 0
    /\ \E k \in 1..Len(allocs) :
          /\ allocs[k].ptr < last.ret /\ Within(allocs[k], last.ret)
          /\ \A j \in 1..Len(allocs) : j # k => ~Overlapping(allocs[j], last.ret, last.arg)

\* C13: m61_gc on an empty registry, whatever the root regions hold, ends
\* without a fatal error, frees nothing and changes nothing: the registry is
\* still empty and the state is the one before the call, so that a second call
\* starts from the same state.
C13_EmptyCollectNoop ==
    [][(last'.op = "gc" /\ Len(allocs) = 0) =>
         /\ fatal' = "none"
         /\ last'.released = {}
         /\ allocs' = << >>
         /\ UNCHANGED <<allocs, allocs_capacity, allocation_count, live, mem, fatal>>]_vars

\* C13 witness: a collection over an empty registry that scanned both root
\* regions, one of them holding the address of a block malloc had handed out.
C13_Witness ==
    /\ IsCollect /\ Len(allocs) = 0 /\ last.released = {} /\ last.nmarks = 2
    /\ \E b \in live :
          b.ptr \in Candidates(Memory(mem, last.stack, last.data), StackTop, StackLen)
                   \cup Candidates(Memory(mem, last.stack, last.data), DataStart, DataLen)

\* the registry when the marking of m61_gc ends, the root regions holding the
\* bytes stack and data
MarkedBeforeSweep(stack, data) ==
    gc_mark_data(gc_mark_stack(gc_begin(Cur), Memory(mem, stack, data)),
                 Memory(mem, stack, data)).allocs

\* C14 (as claimed): the sweep removes every record whose flag is 0 when the
\* marking ends and no record whose flag is 1, runs of unmarked records and an
\* unmarked record in slot 0 included; the survivors keep their order.
C14_SweepExact ==
    [][last'.op = "gc" =>
         /\ fatal' = "none"
         /\ allocs' = SelectSeq(MarkedBeforeSweep(last'.stack, last'.data),
                                LAMBDA r : r.marked = 1)
         /\ last'.released =
               {r.ptr : r \in {MarkedBeforeSweep(last'.stack, last'.data)[k] :
                                 k \in {j \in 1..Len(allocs) :
                                    MarkedBeforeSweep(last'.stack, last'.data)[j].marked = 0}}}]_vars

\* the addresses find_allocation is asked about: NULL, the heap, the root regions
Probes == 0..DataEnd

\* C15: in every reachable state and for every address, find_allocation passes
\* its assertion and returns the record r with r.ptr <= address < r.ptr + r.sz
\* if there is one, none otherwise, as a scan of all records would.
C15_FindAgreesWithScan ==
    \A a \in Probes :
       /\ find_allocation(allocs, a).ok
       /\ \A k \in 1..Len(allocs) :
             find_allocation(allocs, a).a = k - 1 <=> Within(allocs[k], a)
       /\ find_allocation(allocs, a).a = Nil <=>
             ~\E k \in 1..Len(allocs) : Within(allocs[k], a)

\* C15 witness: a registry of several records in which the last byte of a
\* record is found in it, the address one past its end matches nothing, and
\* the address one past the end of another record is the start of the next.
C15_Witness ==
    /\ fatal = "none" /\ Len(allocs) >= 3
    /\ \E k \in 1..Len(allocs) :
          /\ allocs[k].sz > 0
          /\ find_allocation(allocs, allocs[k].ptr + allocs[k].sz - 1).a = k - 1
          /\ find_allocation(allocs, allocs[k].ptr + allocs[k].sz).a = Nil
    /\ \E k \in 1..(Len(allocs) - 1) :
          /\ allocs[k].sz > 0
          /\ find_allocation(allocs, allocs[k].ptr + allocs[k].sz).a = k

\* the records of A large enough to hold a pointer
Scannable(A) == {k \in 1..Len(A) : A[k].sz >= PtrWidth}

\* C16 (as claimed): every collection runs to completion, mark then sweep,
\* without a fatal error, and scans the extent of each record at most once:
\* the scans it counts are at most the two root regions and one per record
\* that can hold a pointer.
C16_CollectionCompletes ==
    [][last'.op = "gc" =>
         /\ fatal' = "none"
         /\ last'.nmarks <= 2 + Cardinality(Scannable(allocs))]_vars

\* what a call leaves behind, the flags aside
Outcome(st) == <<Extents(st.allocs), st.released, st.live, st.mem, st.fatal>>

\* C17: what m61_gc removes does not depend on the flags it finds, left by an
\* earlier cycle or never initialised: it ends as it does when started from
\* the same records with every flag clear, and as it does with every flag
\* set.  Hence a collection that follows a completed one completes and
\* removes every record its own roots do not reach, whatever the earlier one
\* had marked.
C17_FlagsCarryNothing ==
    [][last'.op = "gc" =>
         /\ \A f \in {0, 1} :
               \E st \in {[Cur EXCEPT !.allocs =
                              [k \in 1..Len(allocs) |-> [allocs[k] EXCEPT !.marked = f]]]} :
               \E r \in {m61_gc(st, last'.stack, last'.data)} :
                  Outcome(r) = <<Extents(allocs'), last'.released, live', mem', fatal'>>
         /\ (IsCollect /\ fatal = "none") =>
               /\ fatal' = "none"
               /\ \A k \in 1..Len(allocs) :
                     k \notin Reachable(allocs, mem, last'.stack, last'.data) =>
                        /\ allocs[k].ptr \in last'.released
                        /\ \A j \in 1..Len(allocs') : allocs'[j].ptr # allocs[k].ptr]_vars

\* C17 witness: the second of two collections in a row.  It started with the
\* flags the first had set on a record X and on the record Y holding the
\* address of X, found nothing in the roots and reclaimed both.
C17_Witness ==
    /\ IsCollect /\ fatal = "none" /\ last.again
    /\ last.flagged >= 2 /\ last.linked
    /\ last.stack = ZeroStack /\ last.data = ZeroData
    /\ allocs = << >> /\ Cardinality(last.released) >= 2

\* the indices of the records of A reached from the first n bytes of the stack
\* region: pointed into by a candidate at one of the offsets 0 .. n - PtrWidth,
\* or by a candidate in the bytes of a reached record
ReachedFrom(A, M, n) ==
    Closure(A, M, {k \in 1..Len(A) : \E c \in Candidates(M, StackTop, n) : Within(A[k], c)},
            Len(A))

\* C18: mark_allocations(base, n) with n smaller than a pointer returns at
\* once: no record is marked, no scan counted.  Otherwise it examines the
\* candidates at the offsets 0 .. n - PtrWidth and no other: exactly the
\* records reached from them are marked, a record containing a candidate of
\* any offset among them, and one scan is counted for the region and for each
\* marked record of at least a pointer width; a smaller record is marked and
\* not scanned.
C18_ScanEveryOffset ==
    [][last'.op = "scan" =>
         /\ fatal' = "none"
         /\ Extents(allocs') = Extents(allocs)
         /\ IF last'.arg < PtrWidth
            THEN allocs' = allocs /\ last'.nmarks = 0
            ELSE \E R \in {ReachedFrom(allocs, Memory(mem, last'.stack, ZeroData), last'.arg)} :
                   /\ \A k \in 1..Len(allocs) : allocs'[k].marked = 1 <=> k \in R
                   /\ last'.nmarks = 1 + Cardinality(R \cap Scannable(allocs))]_vars

\* C18 witness: a scan of the whole stack region found, at the odd offset 1, the
\* address of a record smaller than a pointer and marked it without scanning it.
C18_Witness ==
    /\ last.op = "scan" /\ last.arg = StackLen /\ last.stack[2] # 0 /\ last.nmarks = 1
    /\ \E k \in 1..Len(allocs) :
          allocs[k].marked = 1 /\ allocs[k].sz > 0 /\ allocs[k].sz < PtrWidth
=============================================================================
